---------------------------- MODULE Spec2Model ----------------------------
(***************************************************************************)
(* A model of PhotoScan_Workflow.py: the three tie-point reduction loops   *)
(* (ReduceError_RU / _PA / _RE), the script's main loop, the tie-point     *)
(* match tables (GetPointMatchList, CollateMatchList), the band loop of    *)
(* BRDFCorrection with BRDFImage's sample handling, BRDFImage's clipping   *)
(* of the corrected image, and GetSunAngle.                                *)
(*                                                                         *)
(* The photogrammetry engine (PhotoScan / Metashape), numpy and sklearn    *)
(* are the environment: what the engine's optimizer does to the metric of  *)
(* the surviving tie points is a nondeterministic choice.                  *)
(***************************************************************************)
EXTENDS Integers, Sequences, FiniteSets, TLC

VARIABLES
    \* ---- one reduction phase (ReduceError_RU / _PA / _RE) ----
    phase,              \* "RU", "PA", "RE", or "none" when no phase is running
    pc,                 \* "idle" | "loop" (at the while test) | "done" (returned)
    cloud,              \* fltr's values over chunk.point_cloud.points:
                        \*   metric value -> number of tie points having it
    threshold,          \* the local variable threshold
    tiepoint_accuracy,  \* chunk.tiepoint_accuracy, in tenths of a pixel
    last_opt,           \* the parameter set of the latest chunk.optimizeCameras call
    iter,               \* history: what the latest pass through the while body did
    removed,            \* history: tie points removed so far in this phase
    entry_max,          \* history: fltr.max_value when the phase was entered
    calls,              \* history: the engine calls and chunk assignments of the
                        \*   latest step, in order
    \* ---- the script's main loop ----
    chunks,             \* doc.chunks: for each chunk, whether chunk.point_cloud exists
    ci,                 \* index of the chunk the for loop is at
    mainpc,             \* "next" | "reduce" | "raised" | "end"
    phaselog,           \* history: per chunk, the phases started on it, in order
    \* ---- GetPointMatchList / CollateMatchList ----
    points,             \* chunk.point_cloud.points: the track ids, in table order
    projections,        \* point_cloud.projections: camera -> track ids, in list order
    camera_matches,
    point_matches,
    new_camera_matches,
    new_point_matches,
    index_trace,        \* history: per camera, the values of point_index, in order
    mpc,                \* "start" | "matched" | "collated" | "given" | "collated_given"
    \* ---- BRDFCorrection's loop over the bands ----
    bi,                 \* index of the band the for loop is at
    cur,                \* the band of the current pass, with what the pass read and did
    outcome,            \* per band: what the loop body did to it
    bpc,                \* "for" | "body" | "done" | "raised" (an exception left
                        \*   BRDFCorrection)
    \* ---- BRDFImage: from the predicted array to the returned image ----
    Image,              \* camera.photo.image(): data_type, width, height
    BRDFZenithArray,    \* pixel <<u, v>> -> value, as ZenithPredict returns it
    BRDFZenithImage,    \* the image BRDFImage returns
    ipc,                \* "predicted" | "returned" | "raised"
    \* ---- GetSunAngle ----
    pysolar,            \* what get_altitude and get_azimuth return, in degrees
    sun_angle,          \* the pair GetSunAngle returns
    spc                 \* "call" | "returned"

reduceVars == <<phase, pc, cloud, threshold, tiepoint_accuracy, last_opt, iter,
                removed, entry_max, calls>>
mainVars   == <<chunks, ci, mainpc, phaselog>>
matchVars  == <<points, projections, camera_matches, point_matches,
                new_camera_matches, new_point_matches, index_trace, mpc>>
brdfVars   == <<bi, cur, outcome, bpc>>
imageVars  == <<Image, BRDFZenithArray, BRDFZenithImage, ipc>>
sunVars    == <<pysolar, sun_angle, spc>>
vars       == <<reduceVars, mainVars, matchVars, brdfVars, imageVars, sunVars>>

-----------------------------------------------------------------------------
(* Bounds of the model *)

\* most tie points in a chunk entering RU or PA
MaxPoints == 4
\* most tie points in a chunk entering RE (RE removes only below one tenth: > 10 points)
MaxPointsRE == 11
\* most chunks in the document
MaxChunks == 2
\* number of cameras of the chunk whose match tables are built
NumCameras == 3
\* track ids are 1..MaxTrack
MaxTrack == 2
\* most band images BRDFCorrection loops over
MaxBands == 2
\* most tie-point samples of one feature at one place of the coefficient space
MaxSamples == 2
\* most pixels of an image (width * height)
MaxPixels == 2
\* the azimuths get_azimuth may return lie less than MaxTurns full turns from 180
MaxTurns == 2

-----------------------------------------------------------------------------
(* Numbers *)

\* RU works on Python ints: init_threshold=10, threshold += 1.
\* PA and RE work on IEEE-754 doubles.  A double is written Dbl(n, e):
\*   PA: n/10  + e * (2^-51 / 5)    (2^-51 is the ulp of doubles in [2, 4))
\*   RE: n/100 + e * (2^-54 / 25)   (2^-54 is the ulp of doubles in [0.25, 0.5))
\* with |e| far below 1000, so that the order of the integers Dbl(n, e) is the
\* order of the doubles.  2.0 = Dbl(20, 0), 3.0 = Dbl(30, 0); the literal 0.3 is
\* the double 0.3 - 0.2 ulp = Dbl(30, -5).
Dbl(n, e) == n * 1000 + e

Phases == {"RU", "PA", "RE"}

RU_init_threshold == 10
RU_stop == 10
RU_cap == 50

InitThreshold(ph) ==
    CASE ph = "RU" -> RU_init_threshold
      [] ph = "PA" -> Dbl(20, 0)
      [] ph = "RE" -> Dbl(30, -5)

\* the right-hand side of the while test: fltr.max_value > 10 / 2.0 / 0.3
StopValue(ph) ==
    CASE ph = "RU" -> RU_stop
      [] ph = "PA" -> Dbl(20, 0)
      [] ph = "RE" -> Dbl(30, -5)

\* Widen as it would read with a step twice as long
WidenDouble(ph, thr) ==
    CASE ph = "RU" -> thr + 2
      [] ph = "PA" -> thr + Dbl(2, 2)
      [] ph = "RE" -> thr + Dbl(2, 8)

\* threshold += 1 / 0.1 / 0.01.  The double 0.1 is 0.1 + ulp/80 (ulp = 2^-51):
\* added to a double of [2, 4) the exact sum lies 0.8125 ulp above a double and
\* rounds up, 0.2 ulp above the decimal tenth.  The double 0.01 added to a
\* double of [0.25, 0.5) rounds up likewise, 0.16 ulp above the hundredth.
Widen(ph, thr) ==
    CASE ph = "RU" -> thr + 1
      [] ph = "PA" -> thr + Dbl(1, 1)
      [] ph = "RE" -> thr + Dbl(1, 4)

\* TooLarge as it would read had RU and PA no cap, like RE
TooLargeNoCap(ph, nselected, npoints, thr) ==
    CASE ph = "RU" -> 2 * nselected >= npoints
      [] ph = "PA" -> 2 * nselected >= npoints
      [] ph = "RE" -> 10 * nselected >= npoints

\* the "if" of the loop body: nselected >= len(points) / 2 and threshold <= 50, ...
\* (n / 2 and n / 10 are correctly rounded quotients of small integers, so the
\* comparisons with the integer nselected are those of the exact fractions)
TooLarge(ph, nselected, npoints, thr) ==
    CASE ph = "RU" -> 2 * nselected >= npoints /\ thr <= RU_cap
      [] ph = "PA" -> 2 * nselected >= npoints /\ thr <= Dbl(30, 0)
      [] ph = "RE" -> 10 * nselected >= npoints

\* The metric values the engine may report for a tie point, per criterion:
\* at the stop value, just above it, and around the thresholds the loop visits.
MetricValues(ph) ==
    CASE ph = "RU" -> {9, 10, 11, 51, 52}
      [] ph = "PA" -> {Dbl(20, 0), Dbl(21, 1), Dbl(30, 0), Dbl(30, 10), Dbl(30, 15)}
      [] ph = "RE" -> {Dbl(30, -5), Dbl(31, -1), Dbl(33, 7)}
      [] OTHER     -> {}

PointsBound(ph) == IF ph = "RE" THEN MaxPointsRE ELSE MaxPoints

-----------------------------------------------------------------------------
(* The point cloud seen through the filter *)

RECURSIVE SumOver(_, _)
SumOver(f, S) ==
    IF S = {} THEN 0
    ELSE LET x == CHOOSE y \in S : TRUE IN f[x] + SumOver(f, S \ {x})

\* len(tie_points.points)
Len_points(c) == SumOver(c, DOMAIN c)

\* every cloud of n tie points whose metric values are in V
Clouds(V, n) == {c \in [V -> 0..n] : SumOver(c, V) = n}

\* fltr.max_value; 0 for a cloud without points
max_value(c) ==
    LET S == {v \in DOMAIN c : c[v] > 0}
    IN IF S = {} THEN 0 ELSE CHOOSE v \in S : \A w \in S : w <= v

\* LoopCond as it would read with >= for >
LoopCondGE(ph, c) == max_value(c) >= StopValue(ph)

\* the while test: fltr.max_value > 10 / 2.0 / 0.3
LoopCond(ph, c) == max_value(c) > StopValue(ph)

\* selectPoints as it would read with >= for >
selectPointsGE(c, thr) == [v \in DOMAIN c |-> IF v >= thr THEN c[v] ELSE 0]

\* fltr.selectPoints(threshold): the points whose value exceeds the threshold
selectPoints(c, thr) == [v \in DOMAIN c |-> IF v > thr THEN c[v] ELSE 0]

\* tie_points.removeSelectedPoints()
removeSelectedPoints(c, sel) == [v \in DOMAIN c |-> c[v] - sel[v]]

NoIter == [branch |-> "none", thr |-> 0, nselected |-> 0, npoints |-> 0, sel |-> <<>>]

-----------------------------------------------------------------------------
(* States of the parts a specification does not run *)

ReduceIdle ==
    /\ phase = "none" /\ pc = "idle" /\ cloud = <<>> /\ threshold = 0
    /\ tiepoint_accuracy = 10 /\ last_opt = "none" /\ iter = NoIter
    /\ removed = 0 /\ entry_max = 0 /\ calls = <<>>

MainIdle == chunks = <<>> /\ ci = 0 /\ mainpc = "idle" /\ phaselog = <<>>

MatchIdle ==
    /\ points = <<>> /\ projections = <<>> /\ camera_matches = <<>>
    /\ point_matches = <<>> /\ new_camera_matches = <<>>
    /\ new_point_matches = <<>> /\ index_trace = <<>> /\ mpc = "idle"

BRDFIdle == bi = 0 /\ cur = <<>> /\ outcome = <<>> /\ bpc = "idle"

ImageIdle ==
    Image = <<>> /\ BRDFZenithArray = <<>> /\ BRDFZenithImage = <<>> /\ ipc = "idle"

SunIdle == pysolar = <<>> /\ sun_angle = <<>> /\ spc = "idle"

-----------------------------------------------------------------------------
(* ReduceError_RU, ReduceError_PA, ReduceError_RE *)

\* The function's first four statements: fltr.init(chunk, <criterion>) computes
\* the metric of every tie point; threshold = init_threshold.
EnterPhase(ph, c) ==
    /\ phase' = ph
    /\ pc' = "loop"
    /\ cloud' = c
    /\ threshold' = InitThreshold(ph)
    /\ iter' = NoIter
    /\ removed' = 0
    /\ entry_max' = max_value(c)
    /\ calls' = <<"fltr.init">>

\* LoopOptimize as it would read with every parameter fitted in every phase
LoopOptimizeAll(ph) == "all"

\* chunk.optimizeCameras(...) in the loop: RU and PA leave b1, b2, k4, p3, p4
\* out, RE fits every parameter.
LoopOptimize(ph) == IF ph = "RE" THEN "all" ELSE "partial"

\* One pass through the while body that takes the "if": resetSelection,
\* threshold += step, continue.
ReduceError_TooLarge ==
    /\ pc = "loop"
    /\ LoopCond(phase, cloud)
    /\ LET sel       == selectPoints(cloud, threshold)
           nselected == Len_points(sel)
           npoints   == Len_points(cloud)
       IN /\ TooLarge(phase, nselected, npoints, threshold)
          /\ threshold' = Widen(phase, threshold)
          /\ iter' = [branch |-> "widen", thr |-> threshold,
                      nselected |-> nselected, npoints |-> npoints, sel |-> sel]
    /\ calls' = <<"selectPoints", "resetSelection">>
    /\ UNCHANGED <<phase, pc, cloud, tiepoint_accuracy, last_opt, removed, entry_max>>
    /\ UNCHANGED <<mainVars, matchVars, brdfVars, imageVars, sunVars>>

\* One pass through the while body that does not take the "if":
\* removeSelectedPoints, optimizeCameras, fltr.init (the engine recomputes the
\* metric of the surviving points: any values), threshold = init_threshold.
ReduceError_Remove ==
    /\ pc = "loop"
    /\ LoopCond(phase, cloud)
    /\ LET sel       == selectPoints(cloud, threshold)
           nselected == Len_points(sel)
           npoints   == Len_points(cloud)
       IN /\ ~TooLarge(phase, nselected, npoints, threshold)
          /\ cloud' \in Clouds(MetricValues(phase),
                                Len_points(removeSelectedPoints(cloud, sel)))
          /\ removed' = removed + nselected
          /\ iter' = [branch |-> "remove", thr |-> threshold,
                      nselected |-> nselected, npoints |-> npoints, sel |-> sel]
    /\ last_opt' = LoopOptimize(phase)
    /\ calls' = <<"selectPoints", "removeSelectedPoints", "optimizeCameras", "fltr.init">>
    /\ threshold' = InitThreshold(phase)
    /\ UNCHANGED <<phase, pc, tiepoint_accuracy, entry_max>>
    /\ UNCHANGED <<mainVars, matchVars, brdfVars, imageVars, sunVars>>

\* The while test fails and the function returns; ReduceError_PA first sets
\* chunk.tiepoint_accuracy = 0.1 and optimizes once more, every parameter fitted.
ReduceError_Exit ==
    /\ pc = "loop"
    /\ ~LoopCond(phase, cloud)
    /\ pc' = "done"
    /\ IF phase = "PA"
         THEN /\ tiepoint_accuracy' = 1
              /\ last_opt' = "all"
              /\ calls' = <<"tiepoint_accuracy", "optimizeCameras">>
         ELSE /\ UNCHANGED <<tiepoint_accuracy, last_opt>>
              /\ calls' = <<>>
    /\ UNCHANGED <<phase, cloud, threshold, iter, removed, entry_max>>
    /\ UNCHANGED <<mainVars, matchVars, brdfVars, imageVars, sunVars>>

ReduceNext == ReduceError_TooLarge \/ ReduceError_Remove \/ ReduceError_Exit

\* Each function called on a chunk of its own.
InitReduce ==
    /\ phase \in Phases
    /\ pc = "loop"
    /\ cloud \in UNION {Clouds(MetricValues(phase), n) : n \in 0..PointsBound(phase)}
    /\ threshold = InitThreshold(phase)
    /\ tiepoint_accuracy = 10
    /\ last_opt = "partial"
    /\ iter = NoIter
    /\ removed = 0
    /\ entry_max = max_value(cloud)
    /\ calls = <<"fltr.init">>
    /\ MainIdle /\ MatchIdle /\ BRDFIdle /\ ImageIdle /\ SunIdle

SpecReduce == InitReduce /\ [][ReduceNext]_vars

\* The loop is straight-line code around blocking engine calls: it keeps running.
FairReduce == SpecReduce /\ WF_vars(ReduceNext)

-----------------------------------------------------------------------------
(* Claims about the reduction loops *)

\* the largest threshold at which RU and PA still widen: 50 and 3.0
CapOf(ph) == IF ph = "RU" THEN RU_cap ELSE Dbl(30, 0)

\* the first threshold of the phase's sequence above the cap: 51 for RU; for PA
\* ten additions of 0.1 to 2.0, the double 3.000000000000001
FirstAboveCap(ph) == IF ph = "RU" THEN RU_cap + 1 ELSE Dbl(30, 10)

\* C2: a pass through the while body of ReduceError_RU or ReduceError_PA
\* leaves fewer tie points or a larger threshold than it found.
C2_IterationShrinksOrWidens ==
    [][((ReduceError_TooLarge \/ ReduceError_Remove) /\ phase \in {"RU", "PA"})
         => (Len_points(cloud') < Len_points(cloud) \/ threshold' > threshold)]_vars

\* C3: each reduction loop eventually leaves its while loop.
C3_LoopEventuallyExits == <>(pc = "done")

\* C4: a phase entered with fltr.max_value <= its stop value never passes
\* through the loop body and never changes the tie points.
C4_ConvergedPhaseIsNoOp ==
    [][entry_max <= StopValue(phase)
         => (cloud' = cloud /\ removed' = 0 /\ iter'.branch = "none")]_vars

\* C4's case: ReduceError_PA has returned from a chunk whose largest
\* projection accuracy was exactly 2.0.
C4_Witness ==
    /\ phase = "PA" /\ pc = "done"
    /\ entry_max = StopValue("PA") /\ Len_points(cloud) > 1

\* C5 as stated: in RU and PA the threshold never exceeds the cap, and a pass
\* that finds the threshold at the cap removes instead of widening.
C5_ThresholdNeverExceedsCap ==
    phase \in {"RU", "PA"} =>
        /\ threshold <= CapOf(phase)
        /\ (iter.branch = "widen" => iter.thr < CapOf(phase))

\* C5 as amended: the threshold is widened also when it equals the cap, so it
\* reaches the first value above the cap and no more; a pass that finds the
\* threshold above the cap removes the selection whatever its share.
C5_ThresholdStopsOneStepAboveCap ==
    phase \in {"RU", "PA"} =>
        /\ threshold <= FirstAboveCap(phase)
        /\ (iter.branch = "widen" => iter.thr <= CapOf(phase))
        /\ (iter.branch = "remove" /\ 2 * iter.nselected >= iter.npoints
               => iter.thr = FirstAboveCap(phase))

\* C5's case: RU removed, at threshold 51, a selection of at least half the points.
C5_Witness ==
    /\ phase = "RU" /\ iter.branch = "remove" /\ iter.thr > RU_cap
    /\ iter.nselected > 0 /\ 2 * iter.nselected >= iter.npoints

\* one step of a phase's threshold: 1, and what adding the double 0.1 or 0.01
\* to a threshold of the phase's range adds to it
Step(ph) ==
    CASE ph = "RU" -> 1
      [] ph = "PA" -> Dbl(1, 1)
      [] ph = "RE" -> Dbl(1, 4)

\* the number of times call e is in the sequence of calls cs
CountOf(cs, e) == Cardinality({k \in 1..Len(cs) : cs[k] = e})

\* C14: in every phase a pass that takes the "too large" branch removes no
\* point, calls no optimizeCameras, resets the selection and adds exactly one
\* step to the threshold; nothing else of the chunk changes.
C14_TooLargeOnlyWidens ==
    [][ReduceError_TooLarge =>
          /\ cloud' = cloud
          /\ removed' = removed
          /\ last_opt' = last_opt
          /\ tiepoint_accuracy' = tiepoint_accuracy
          /\ CountOf(calls', "removeSelectedPoints") = 0
          /\ CountOf(calls', "optimizeCameras") = 0
          /\ calls'[Len(calls')] = "resetSelection"
          /\ threshold' = threshold + Step(phase)]_vars

\* C14's case: ReduceError_RE has widened its threshold for the second time
\* in a row, on a cloud it left as it was.
C14_Witness ==
    /\ phase = "RE" /\ iter.branch = "widen"
    /\ iter.thr = InitThreshold("RE") + Step("RE")
    /\ threshold = InitThreshold("RE") + 2 * Step("RE")
    /\ removed = 0

\* C15: ReduceError_PA, when its loop has exited (after no pass as after
\* many), sets chunk.tiepoint_accuracy to 0.1 and then calls optimizeCameras
\* once, every parameter fitted, and does nothing more; in the loop every
\* optimizeCameras call leaves b1, b2, k4, p3, p4 out, and tiepoint_accuracy
\* keeps the value it had.
C15_PAEndsWithAccuracyThenFullOptimize ==
    [][phase = "PA" =>
          /\ pc = "done" => UNCHANGED reduceVars
          /\ pc = "loop" => tiepoint_accuracy = 10
          /\ ReduceError_Exit =>
                /\ tiepoint_accuracy' = 1
                /\ last_opt' = "all"
                /\ calls' = <<"tiepoint_accuracy", "optimizeCameras">>
                /\ pc' = "done"
          /\ ReduceError_Remove =>
                /\ CountOf(calls', "optimizeCameras") = 1
                /\ last_opt' = "partial"
                /\ tiepoint_accuracy' = tiepoint_accuracy
          /\ ReduceError_TooLarge =>
                /\ CountOf(calls', "optimizeCameras") = 0
                /\ tiepoint_accuracy' = tiepoint_accuracy]_vars

\* C15's case: ReduceError_PA has returned after removing tie points in its loop.
C15_Witness ==
    /\ phase = "PA" /\ pc = "done" /\ removed > 0 /\ iter.branch = "remove"
    /\ tiepoint_accuracy = 1 /\ last_opt = "all"
    /\ calls = <<"tiepoint_accuracy", "optimizeCameras">>

\* C16: every tie point a phase removes had a metric above the threshold of
\* that pass, which is never below the phase's initial value, so above the
\* phase's stop value: the points at or below it all survive the pass; and a
\* removeSelectedPoints call is followed, in the same pass, by optimizeCameras
\* and fltr.init.
C16_RemovedOnlyAboveThreshold ==
    /\ threshold >= InitThreshold(phase)
    /\ iter.branch = "remove" =>
          /\ iter.thr >= InitThreshold(phase)
          /\ Len_points(iter.sel) = iter.nselected
          /\ \A v \in DOMAIN iter.sel :
                iter.sel[v] > 0 => (v > iter.thr /\ v > StopValue(phase))
          /\ Len_points(cloud) = iter.npoints - iter.nselected
    /\ CountOf(calls, "removeSelectedPoints") > 0 =>
          calls = <<"selectPoints", "removeSelectedPoints", "optimizeCameras", "fltr.init">>

\* C16's case: ReduceError_RE removed, at a widened threshold, one tie point
\* of eleven; the ten it did not select are all there.
C16_Witness ==
    /\ phase = "RE" /\ iter.branch = "remove"
    /\ iter.thr > InitThreshold("RE")
    /\ iter.nselected = 1 /\ iter.npoints = 11
    /\ Len_points(cloud) = 10
    /\ calls = <<"selectPoints", "removeSelectedPoints", "optimizeCameras", "fltr.init">>

-----------------------------------------------------------------------------
(* The script: for chunk in doc.chunks *)

\* chunk.point_cloud is None: AlignPhoto(chunk, Accuracy, Key_Limit, Tie_Limit)
\* passes four arguments to a function of six parameters without defaults.
\* Python raises TypeError at the call; nothing catches it, the script ends and
\* the two statements after it (ReduceError_RU, ReduceError_PA) are not reached.
Main_AlignPhoto ==
    /\ mainpc = "next"
    /\ ci <= Len(chunks)
    /\ ~chunks[ci]
    /\ mainpc' = "raised"
    /\ UNCHANGED <<chunks, ci, phaselog>>
    /\ UNCHANGED <<reduceVars, matchVars, brdfVars, imageVars, sunVars>>

\* chunk.point_cloud exists: ReduceError_RE(chunk) is called.
Main_ReduceError_RE ==
    /\ mainpc = "next"
    /\ ci <= Len(chunks)
    /\ chunks[ci]
    /\ \E c \in UNION {Clouds(MetricValues("RE"), n) : n \in 0..PointsBound("RE")} :
           EnterPhase("RE", c)
    /\ mainpc' = "reduce"
    /\ phaselog' = [phaselog EXCEPT ![ci] = Append(@, "RE")]
    /\ UNCHANGED <<tiepoint_accuracy, last_opt>>
    /\ UNCHANGED <<chunks, ci>>
    /\ UNCHANGED <<matchVars, brdfVars, imageVars, sunVars>>

\* ReduceError_RE has returned: StandardWorkflow(doc, chunk, ...) runs (engine
\* calls only, BRDF being False) and the for loop moves on.
Main_StandardWorkflow ==
    /\ mainpc = "reduce"
    /\ pc = "done"
    /\ pc' = "idle"
    /\ ci' = ci + 1
    /\ mainpc' = "next"
    /\ UNCHANGED <<phase, cloud, threshold, tiepoint_accuracy, last_opt, iter,
                   removed, entry_max, calls>>
    /\ UNCHANGED <<chunks, phaselog>>
    /\ UNCHANGED <<matchVars, brdfVars, imageVars, sunVars>>

\* The for loop is exhausted: PhotoScan.app.update().
Main_End ==
    /\ mainpc = "next"
    /\ ci > Len(chunks)
    /\ mainpc' = "end"
    /\ UNCHANGED <<chunks, ci, phaselog>>
    /\ UNCHANGED <<reduceVars, matchVars, brdfVars, imageVars, sunVars>>

MainNext ==
    \/ Main_AlignPhoto
    \/ Main_ReduceError_RE
    \/ ReduceNext
    \/ Main_StandardWorkflow
    \/ Main_End

InitMain ==
    /\ chunks \in UNION {[1..n -> BOOLEAN] : n \in 0..MaxChunks}
    /\ ci = 1
    /\ mainpc = "next"
    /\ phaselog = [k \in DOMAIN chunks |-> <<>>]
    /\ ReduceIdle /\ MatchIdle /\ BRDFIdle /\ ImageIdle /\ SunIdle

SpecMain == InitMain /\ [][MainNext]_vars

\* C6: every chunk the main loop has handled went through RU, PA and RE,
\* once each and in that order.
C6_EveryChunkRunsRUPARE ==
    \A k \in DOMAIN chunks : k < ci => phaselog[k] = <<"RU", "PA", "RE">>

-----------------------------------------------------------------------------
(* GetPointMatchList and CollateMatchList *)

\* chunk.cameras, in list order.  With a band index given, the key of a camera
\* in both tables is camera.planes[band[0]] (the camera itself when that raises
\* IndexError): one key per camera, written here as the camera's number.
Cameras == 1..NumCameras

\* cur_point.coord of the projection of track t in camera c
Coord(c, t) == <<c, t>>

RECURSIVE SortedSeq(_)
SortedSeq(S) ==
    IF S = {} THEN <<>>
    ELSE LET m == CHOOSE x \in S : \A y \in S : x <= y
         IN <<m>> \o SortedSeq(S \ {m})

\* the engine keeps the point table and every projection list in ascending
\* track id order
TrackLists == {SortedSeq(S) : S \in SUBSET (1..MaxTrack)}

\* AdvanceIndex as it would read with <= for < between the track ids
RECURSIVE AdvanceIndexLE(_, _, _)
AdvanceIndexLE(pts, point_index, track_id) ==
    IF point_index < Len(pts) /\ pts[point_index + 1] <= track_id
    THEN AdvanceIndexLE(pts, point_index + 1, track_id)
    ELSE point_index

\* while point_index < npoints and points[point_index].track_id < track_id:
\*     point_index += 1
\* (point_index counts from 0, the sequence pts from 1)
RECURSIVE AdvanceIndex(_, _, _)
AdvanceIndex(pts, point_index, track_id) ==
    IF point_index < Len(pts) /\ pts[point_index + 1] < track_id
    THEN AdvanceIndex(pts, point_index + 1, track_id)
    ELSE point_index

\* point_index = 0, then its value after the while loop of each cur_point
RECURSIVE PointIndexTrace(_, _, _, _)
PointIndexTrace(pts, proj, j, point_index) ==
    IF j > Len(proj) THEN <<point_index>>
    ELSE <<point_index>>
         \o PointIndexTrace(pts, proj, j + 1, AdvanceIndex(pts, point_index, proj[j]))

\* for cur_point in proj: ... total[point_index] = cur_point.coord
RECURSIVE MatchCamera(_, _, _, _, _, _)
MatchCamera(pts, camera, proj, j, point_index, total) ==
    IF j > Len(proj) THEN total
    ELSE LET track_id == proj[j]
             pi       == AdvanceIndex(pts, point_index, track_id)
         IN IF pi < Len(pts) /\ pts[pi + 1] = track_id
            THEN MatchCamera(pts, camera, proj, j + 1, pi,
                             (pi :> Coord(camera, track_id)) @@ total)
            ELSE MatchCamera(pts, camera, proj, j + 1, pi, total)

\* point_matches[point_index][camera] = cur_point.coord, for the camera's matches
AddToPointMatches(pm, camera, total) ==
    [i \in (DOMAIN pm) \cup (DOMAIN total) |->
        IF i \in DOMAIN total
        THEN (camera :> total[i]) @@ (IF i \in DOMAIN pm THEN pm[i] ELSE <<>>)
        ELSE pm[i]]

\* for camera in chunk.cameras: ...
RECURSIVE MatchCameras(_, _, _, _, _)
MatchCameras(pts, projs, k, cm, pm) ==
    IF k > NumCameras THEN [camera_matches |-> cm, point_matches |-> pm]
    ELSE LET total == MatchCamera(pts, k, projs[k], 1, 0, <<>>)
         IN MatchCameras(pts, projs, k + 1, (k :> total) @@ cm,
                         AddToPointMatches(pm, k, total))

GetPointMatchList(pts, projs) == MatchCameras(pts, projs, 1, <<>>, <<>>)

\* if len(value) >= 3
MinObservations == 3

\* KeepPoint as it would read with > for >=
KeepPointGT(value) == Cardinality(DOMAIN value) > MinObservations

KeepPoint(value) == Cardinality(DOMAIN value) >= MinObservations

\* FilterCamera as it would read without its "if point in point_to_keep"
FilterCameraAll(pts, point_to_keep) == pts

\* {point: coord for point, coord in iter(points.items()) if point in point_to_keep}
FilterCamera(pts, point_to_keep) ==
    [point \in (DOMAIN pts) \cap point_to_keep |-> pts[point]]

CollateMatchList(cm, pm) ==
    LET point_to_keep == {point_index \in DOMAIN pm : KeepPoint(pm[point_index])}
    IN [camera_matches |-> [camera \in DOMAIN cm |-> FilterCamera(cm[camera], point_to_keep)],
        point_matches  |-> [point_index \in point_to_keep |-> pm[point_index]]]

\* cameras, points = GetPointMatchList(chunk, index)
Call_GetPointMatchList ==
    /\ mpc = "start"
    /\ LET r == GetPointMatchList(points, projections)
       IN /\ camera_matches' = r.camera_matches
          /\ point_matches' = r.point_matches
    /\ index_trace' = [camera \in Cameras |->
                          PointIndexTrace(points, projections[camera], 1, 0)]
    /\ mpc' = "matched"
    /\ UNCHANGED <<points, projections, new_camera_matches, new_point_matches>>
    /\ UNCHANGED <<reduceVars, mainVars, brdfVars, imageVars, sunVars>>

\* cameras, points = CollateMatchList(cameras, points)
Call_CollateMatchList ==
    /\ mpc \in {"matched", "given"}
    /\ LET r == CollateMatchList(camera_matches, point_matches)
       IN /\ new_camera_matches' = r.camera_matches
          /\ new_point_matches' = r.point_matches
    /\ mpc' = IF mpc = "matched" THEN "collated" ELSE "collated_given"
    /\ UNCHANGED <<points, projections, camera_matches, point_matches, index_trace>>
    /\ UNCHANGED <<reduceVars, mainVars, brdfVars, imageVars, sunVars>>

MatchNext == Call_GetPointMatchList \/ Call_CollateMatchList

\* point tables a caller can hand to CollateMatchList directly: any point
\* index with any set of observing cameras, the empty one included
PointTables ==
    UNION {[I -> {[c \in O |-> Coord(c, 0)] : O \in SUBSET Cameras}] :
             I \in SUBSET (0..MaxTrack - 1)}

CameraTableOf(pm) ==
    [c \in Cameras |-> [i \in {x \in DOMAIN pm : c \in DOMAIN pm[x]} |-> pm[i][c]]]

\* Either a chunk whose tables GetPointMatchList is about to build, or a pair
\* of tables handed to CollateMatchList as they are.
InitMatch ==
    /\ \/ /\ mpc = "start"
          /\ points \in TrackLists
          /\ projections \in [Cameras -> TrackLists]
          /\ camera_matches = <<>>
          /\ point_matches = <<>>
       \/ /\ mpc = "given"
          /\ points = <<>>
          /\ projections = <<>>
          /\ point_matches \in PointTables
          /\ camera_matches = CameraTableOf(point_matches)
    /\ new_camera_matches = <<>>
    /\ new_point_matches = <<>>
    /\ index_trace = <<>>
    /\ ReduceIdle /\ MainIdle /\ BRDFIdle /\ ImageIdle /\ SunIdle

SpecMatch == InitMatch /\ [][MatchNext]_vars

Collated == mpc \in {"collated", "collated_given"}

\* C1: CollateMatchList keeps a tie point iff it has at least 3 entries in the
\* point_matches it is given, and keeps the entries of a kept point as they are.
C1_KeptIffThreeObservations ==
    Collated =>
        /\ \A i \in 0..MaxTrack :
              i \in DOMAIN new_point_matches
                <=> (i \in DOMAIN point_matches
                      /\ Cardinality(DOMAIN point_matches[i]) >= 3)
        /\ \A i \in DOMAIN new_point_matches :
              new_point_matches[i] = point_matches[i]

\* C1's case: one point with 3 or more observations kept, another with 1 or 2
\* dropped, by the same call.
C1_Witness ==
    /\ Collated
    /\ \E i \in DOMAIN new_point_matches : Cardinality(DOMAIN new_point_matches[i]) >= 3
    /\ \E i \in DOMAIN point_matches :
          /\ Cardinality(DOMAIN point_matches[i]) \in {1, 2}
          /\ i \notin DOMAIN new_point_matches

\* the camera-bands whose filtered camera_matches entry holds point i
ObserversOf(i) == {c \in DOMAIN new_camera_matches : i \in DOMAIN new_camera_matches[c]}

\* C7: on tables built by GetPointMatchList, every point of the filtered
\* point_matches is in the filtered camera_matches of at least 3 cameras, and
\* every point of a filtered camera_matches entry is in the filtered point_matches.
C7_FilteredTablesAgree ==
    mpc = "collated" =>
        /\ \A i \in DOMAIN new_point_matches : Cardinality(ObserversOf(i)) >= 3
        /\ \A c \in DOMAIN new_camera_matches :
              DOMAIN new_camera_matches[c] \subseteq DOMAIN new_point_matches

\* C7's case: GetPointMatchList matched a point in 3 cameras and another in
\* fewer, and CollateMatchList filtered both tables.
C7_Witness ==
    /\ mpc = "collated"
    /\ new_point_matches # <<>>
    /\ \E c \in DOMAIN camera_matches :
          DOMAIN new_camera_matches[c] # DOMAIN camera_matches[c]

\* the tables GetPointMatchList built are in camera_matches and point_matches
Matched == mpc \in {"matched", "collated"}

\* camera c's projection list holds a projection of the track of point i
HasProjection(c, i) ==
    \E j \in 1..Len(projections[c]) : projections[c][j] = points[i + 1]

\* C13: GetPointMatchList, on a point table and projection lists in ascending
\* track id order, builds the join on track id: point index i is a key of
\* camera_matches[c] iff camera c has a projection of point i's track, with
\* camera_matches[c][i] = point_matches[i][c] = that projection's coordinate;
\* point_index never moves back; the point table and the projection lists are
\* left as they were.
C13_MergeIsJoinOnTrackId ==
    /\ [](Matched =>
            /\ DOMAIN camera_matches = Cameras
            /\ \A c \in Cameras :
                  /\ DOMAIN camera_matches[c] \subseteq 0..(Len(points) - 1)
                  /\ \A i \in 0..(Len(points) - 1) :
                        /\ i \in DOMAIN camera_matches[c] <=> HasProjection(c, i)
                        /\ i \in DOMAIN camera_matches[c] =>
                              /\ camera_matches[c][i] = Coord(c, points[i + 1])
                              /\ i \in DOMAIN point_matches
                              /\ c \in DOMAIN point_matches[i]
                              /\ point_matches[i][c] = camera_matches[c][i]
                  /\ \A k \in 1..(Len(index_trace[c]) - 1) :
                        index_trace[c][k] <= index_trace[c][k + 1]
            /\ \A i \in DOMAIN point_matches :
                  /\ point_matches[i] # <<>>
                  /\ \A c \in DOMAIN point_matches[i] : i \in DOMAIN camera_matches[c])
    /\ [][points' = points /\ projections' = projections]_vars

\* C13's case: a camera with a projection that is matched and, after it, a
\* projection of a track the point table does not have, over which point_index
\* moved on; and a camera that does not see a point of the table.
C13_Witness ==
    /\ mpc = "matched"
    /\ \E c \in Cameras :
          /\ camera_matches[c] # <<>>
          /\ Len(projections[c]) > Cardinality(DOMAIN camera_matches[c])
          /\ index_trace[c][Len(index_trace[c])] > 0
    /\ \E c \in Cameras, i \in DOMAIN point_matches : c \notin DOMAIN point_matches[i]

-----------------------------------------------------------------------------
(* BRDFImage: the samples of the two features *)

\* BRDFArray[i] holds one row per tie point of the band that GMM.predict put in
\* feature i.  SearchForOutliers reads of a row only its columns 5:8, the
\* point's fitted (coef_[0], coef_[1], intercept_); a feature's rows are kept
\* here as a count per place of that coefficient space.  The places lie on a
\* line, neighbours exactly eps apart: DBSCAN's eps-neighbourhood of a place is
\* the place and its neighbours.
Places == {0, 1, 2}
Features == {0, 1}

\* len(data): the rows of a sample array
NumRows(data) == data[0] + data[1] + data[2]

\* DBSCAN(eps=5000) leaves min_samples at sklearn's default
DBSCAN_min_samples == 5

EpsNeighbours(p) == {q \in Places : q - p \in {-1, 0, 1}}

\* the samples within eps of place p
NumWithinEps(data, p) ==
    data[p] + (IF p > 0 THEN data[p - 1] ELSE 0) + (IF p < 2 THEN data[p + 1] ELSE 0)

\* a core sample has at least min_samples samples, itself included, within eps
CoreSample(data, p) == data[p] > 0 /\ NumWithinEps(data, p) >= DBSCAN_min_samples

\* db.labels_ != -1: the sample is a core sample or within eps of one
NotNoise(data, p) == \E q \in EpsNeighbours(p) : CoreSample(data, q)

\* SearchForOutliers as it would read without the noise mask
SearchForOutliersKeepAll(data) == data

\* noise_mask = (labels != -1); denoised = data[noise_mask]
SearchForOutliers(data) == [p \in DOMAIN data |-> IF NotNoise(data, p) THEN data[p] ELSE 0]

\* What BRDFImage does with the two sample arrays:
\*  - np.array([]) of a feature without rows is 1-dimensional, and data[:, 5:8]
\*    in SearchForOutliers raises IndexError (feature 0 first, then feature 1);
\*  - clf0.fit, then clf1.fit: LinearRegression.fit raises ValueError on an
\*    array of 0 samples;
\*  - otherwise both models are fitted and the corrected image is returned.
BRDFImage(BRDFArray) ==
    IF \E i \in Features : NumRows(BRDFArray[i]) = 0
    THEN [raised |-> "IndexError", denoised |-> <<>>, fitted |-> {}]
    ELSE LET denoised == [i \in Features |-> SearchForOutliers(BRDFArray[i])]
         IN IF NumRows(denoised[0]) = 0
            THEN [raised |-> "ValueError", denoised |-> denoised, fitted |-> {}]
            ELSE IF NumRows(denoised[1]) = 0
            THEN [raised |-> "ValueError", denoised |-> denoised, fitted |-> {0}]
            ELSE [raised |-> "none", denoised |-> denoised, fitted |-> {0, 1}]

-----------------------------------------------------------------------------
(* BRDFCorrection: for band in [band for camera in chunk.cameras for band in camera.planes] *)

\* What a pass of the loop can read of its band:
\*   group     band.group: "none" when the camera is in no group (band.group
\*             is None and band.group.label raises AttributeError), else the
\*             group's label
\*   same_path filename_formatted == new_filename_formatted
\*   exists    os.path.exists(new_path)
BandAttributes ==
    [group : {"none", "Calibration images", "Flight 1"},
     same_path : BOOLEAN, exists : BOOLEAN]

\* the rows BRDFImage collects from camera_matches[camera] for the band
SampleArrays == [Features -> [Places -> 0..MaxSamples]]

NoResult == [raised |-> "none", denoised |-> <<>>, fitted |-> {}]

NoBand == [index |-> 0, band |-> <<>>, BRDFArray |-> <<>>, result |-> NoResult]

\* the pass is over: the band's outcome is recorded and control is back at the for
PassEnds(band, what) ==
    /\ cur' = [index |-> bi, band |-> band, BRDFArray |-> <<>>, result |-> NoResult]
    /\ outcome' = [outcome EXCEPT ![bi] = what]
    /\ bpc' = "for"
    /\ UNCHANGED bi

AtBand == bpc = "body"

\* the for statement takes the next band
BRDFCorrection_For ==
    /\ bpc = "for"
    /\ bi < Len(outcome)
    /\ bi' = bi + 1
    /\ cur' = NoBand
    /\ bpc' = "body"
    /\ UNCHANGED outcome
    /\ UNCHANGED <<reduceVars, mainVars, matchVars, imageVars, sunVars>>

\* band.group.label == 'Calibration images': continue
Band_Calibration ==
    /\ AtBand
    /\ \E band \in BandAttributes :
          /\ band.group = "Calibration images"
          /\ PassEnds(band, "skipped")
    /\ UNCHANGED <<reduceVars, mainVars, matchVars, imageVars, sunVars>>

\* band.group.label is another label: the try block ends without an
\* exception, so the except AttributeError block, which holds the rest of the
\* loop body, does not run
Band_OtherGroup ==
    /\ AtBand
    /\ \E band \in BandAttributes :
          /\ band.group \notin {"none", "Calibration images"}
          /\ PassEnds(band, "skipped")
    /\ UNCHANGED <<reduceVars, mainVars, matchVars, imageVars, sunVars>>

\* except AttributeError: if filename_formatted == new_filename_formatted: continue
Band_SamePath ==
    /\ AtBand
    /\ \E band \in BandAttributes :
          /\ band.group = "none"
          /\ band.same_path
          /\ PassEnds(band, "skipped")
    /\ UNCHANGED <<reduceVars, mainVars, matchVars, imageVars, sunVars>>

\* elif os.path.exists(new_path): band.photo.open(new_path, 0)
Band_Reopen ==
    /\ AtBand
    /\ \E band \in BandAttributes :
          /\ band.group = "none"
          /\ ~band.same_path
          /\ band.exists
          /\ PassEnds(band, "reopened")
    /\ UNCHANGED <<reduceVars, mainVars, matchVars, imageVars, sunVars>>

\* else: New_Image = BRDFImage(...); what follows depends on how it ends:
\*   returns            New_Image.save(new_path); band.photo.open(new_path, 0)
\*   raises ValueError  except ValueError: band.enabled = False
\*   raises IndexError  no handler: the exception leaves BRDFCorrection
Band_BRDFImage ==
    /\ AtBand
    /\ \E band \in BandAttributes, BRDFArray \in SampleArrays :
          /\ band.group = "none"
          /\ ~band.same_path
          /\ ~band.exists
          /\ LET r == BRDFImage(BRDFArray)
             IN /\ cur' = [index |-> bi, band |-> band, BRDFArray |-> BRDFArray,
                           result |-> r]
                /\ outcome' = [outcome EXCEPT ![bi] =
                                 CASE r.raised = "none"       -> "corrected"
                                   [] r.raised = "ValueError" -> "disabled"
                                   [] OTHER                   -> "raised"]
                /\ bpc' = IF r.raised = "IndexError" THEN "raised" ELSE "for"
                /\ UNCHANGED bi
    /\ UNCHANGED <<reduceVars, mainVars, matchVars, imageVars, sunVars>>

\* the for loop is exhausted: BRDFCorrection returns
BRDFCorrection_Return ==
    /\ bpc = "for"
    /\ bi = Len(outcome)
    /\ bpc' = "done"
    /\ UNCHANGED <<bi, cur, outcome>>
    /\ UNCHANGED <<reduceVars, mainVars, matchVars, imageVars, sunVars>>

BRDFNext ==
    \/ BRDFCorrection_For
    \/ Band_Calibration
    \/ Band_OtherGroup
    \/ Band_SamePath
    \/ Band_Reopen
    \/ Band_BRDFImage
    \/ BRDFCorrection_Return

InitBRDF ==
    /\ bi = 0
    /\ cur = NoBand
    /\ outcome \in {[b \in 1..n |-> "pending"] : n \in 1..MaxBands}
    /\ bpc = "for"
    /\ ReduceIdle /\ MainIdle /\ MatchIdle /\ ImageIdle /\ SunIdle

SpecBRDF == InitBRDF /\ [][BRDFNext]_vars

\* the latest pass called BRDFImage
CalledBRDFImage == cur.index > 0 /\ cur.BRDFArray # <<>>

\* C8: a band is left without a corrected image only for being a calibration
\* image, for a destination equal to its source, or for an existing corrected
\* file, which is then re-opened; any other band is corrected or disabled.
C8_SkippedOnlyForStatedReasons ==
    cur.index > 0 =>
        LET band == cur.band
            what == outcome[cur.index]
        IN /\ what = "skipped" =>
                 (band.group = "Calibration images" \/ band.same_path \/ band.exists)
           /\ (band.group # "Calibration images" /\ ~band.same_path /\ band.exists)
                 => what = "reopened"
           /\ (band.group # "Calibration images" /\ ~band.same_path /\ ~band.exists)
                 => what \in {"corrected", "disabled"}

\* C9: a band whose correction fails for want of tie-point samples (no sample
\* at all, or none for one of the two features) is disabled, and the loop
\* goes on: no exception leaves BRDFCorrection.
C9_NoTiePointsDisablesBand ==
    (CalledBRDFImage /\ \E i \in Features : NumRows(cur.BRDFArray[i]) = 0)
        => (outcome[cur.index] = "disabled" /\ bpc # "raised")

\* C10: BRDFImage fits a feature's global model only from at least 3 denoised
\* samples; a feature left with fewer by SearchForOutliers gets no model and
\* BRDFImage raises.
C10_FitNeedsThreeDenoisedSamples ==
    CalledBRDFImage =>
        LET r == cur.result
        IN /\ r.raised = "IndexError" => r.fitted = {}
           /\ r.raised # "IndexError" =>
                 \A i \in Features :
                    /\ i \in r.fitted => NumRows(r.denoised[i]) >= 3
                    /\ NumRows(r.denoised[i]) < 3 => (i \notin r.fitted /\ r.raised # "none")

\* C10's case: feature 0 fitted from its denoised samples, feature 1 with
\* samples of which SearchForOutliers left none: BRDFImage raised, unfitted.
C10_Witness ==
    /\ CalledBRDFImage
    /\ cur.result.raised = "ValueError"
    /\ cur.result.fitted = {0}
    /\ NumRows(cur.BRDFArray[1]) > 0
    /\ NumRows(cur.result.denoised[1]) = 0
    /\ NumRows(cur.result.denoised[0]) >= DBSCAN_min_samples

-----------------------------------------------------------------------------
(* BRDFImage: from the source image's data type to the returned image *)

\* datatype = {'U8':np.uint8, 'U16':np.uint16, 'U32':np.uint32,
\*             'F32':np.float32, 'F64':np.float64}
datatype == {"U8", "U16", "U32", "F32", "F64"}

\* the values Image.data_type can have in the engine
DataTypes == datatype \cup {"U64", "F16"}

\* A pixel value is written as an integer:
\*   U8, U16   the value
\*   U32       the value in units of 65537 (4294967295 = 65535 * 65537)
\*   F32, F64  the value in units of np.finfo(Imtype).max; what lies beyond
\*             +-1 is a double beyond the float32 range, or an infinity
\* np.iinfo(Imtype).max, or np.finfo(Imtype).max when np.iinfo raises ValueError
dtype_max(t) ==
    CASE t = "U8"  -> 255
      [] t = "U16" -> 65535
      [] t = "U32" -> 65535
      [] t \in {"F32", "F64"} -> 1

\* np.iinfo(Imtype).min, or np.finfo(Imtype).min
dtype_min(t) == IF t \in {"F32", "F64"} THEN -1 ELSE 0

\* np.clip as it would read were the array left as it is
np_noclip(a, lo, hi) == a

\* np.clip(BRDFZenithArray, dtype_min, dtype_max, BRDFZenithArray)
np_clip(a, lo, hi) ==
    [p \in DOMAIN a |-> IF a[p] < lo THEN lo ELSE IF a[p] > hi THEN hi ELSE a[p]]

\* (u, v) for u in range(width) for v in range(height)
Pixels(width, height) == (0..width - 1) \X (0..height - 1)

\* camera.photo.image(); camera.sensor.width and .height are its width and height
Images ==
    {img \in [data_type : DataTypes, width : 1..MaxPixels, height : 1..MaxPixels] :
        img.width * img.height <= MaxPixels}

\* what ZenithPredict may return for a pixel: the model's prediction is any
\* number, below, at, inside, at and above the range of the data type
PredictedValues(t) ==
    {dtype_min(t) - 1, dtype_min(t), dtype_min(t) + 1, dtype_max(t), dtype_max(t) + 1}

\* Imtype = datatype[PhotoScan_Imtype] raises KeyError for a data type that is
\* not a key; nothing in BRDFImage or BRDFCorrection catches it
BRDFImage_KeyError ==
    /\ ipc = "start"
    /\ Image.data_type \notin datatype
    /\ ipc' = "raised"
    /\ UNCHANGED <<Image, BRDFZenithArray, BRDFZenithImage>>
    /\ UNCHANGED <<reduceVars, mainVars, matchVars, brdfVars, sunVars>>

\* The samples are collected, the two models fitted and
\* BRDFZenithArray = ZenithPredict(Image_array, ...) computed: one predicted
\* value per pixel of the source image.
BRDFImage_ZenithPredict ==
    /\ ipc = "start"
    /\ Image.data_type \in datatype
    /\ BRDFZenithArray' \in [Pixels(Image.width, Image.height)
                               -> PredictedValues(Image.data_type)]
    /\ ipc' = "predicted"
    /\ UNCHANGED <<Image, BRDFZenithImage>>
    /\ UNCHANGED <<reduceVars, mainVars, matchVars, brdfVars, sunVars>>

\* The array is clipped in place and copied, pixel by pixel, into
\* BRDFZenithImage = PhotoScan.Image(width, height, ' ', PhotoScan_Imtype),
\* which is returned.
BRDFImage_ClipAndReturn ==
    /\ ipc = "predicted"
    /\ LET t       == Image.data_type
           clipped == np_clip(BRDFZenithArray, dtype_min(t), dtype_max(t))
       IN /\ BRDFZenithArray' = clipped
          /\ BRDFZenithImage' =
                [data_type |-> t, width |-> Image.width, height |-> Image.height,
                 pixels |-> [p \in Pixels(Image.width, Image.height) |-> clipped[p]]]
    /\ ipc' = "returned"
    /\ UNCHANGED Image
    /\ UNCHANGED <<reduceVars, mainVars, matchVars, brdfVars, sunVars>>

ImageNext == BRDFImage_KeyError \/ BRDFImage_ZenithPredict \/ BRDFImage_ClipAndReturn

InitImage ==
    /\ Image \in Images
    /\ BRDFZenithArray = <<>>
    /\ BRDFZenithImage = <<>>
    /\ ipc = "start"
    /\ ReduceIdle /\ MainIdle /\ MatchIdle /\ BRDFIdle /\ SunIdle

SpecImage == InitImage /\ [][ImageNext]_vars

\* C11: every pixel of the image BRDFImage returns lies within the range of
\* the source image's data type, and the returned image has the source's
\* width, height and data type.
C11_CorrectedImageWithinDtypeRange ==
    ipc = "returned" =>
        /\ BRDFZenithImage.data_type = Image.data_type
        /\ BRDFZenithImage.width = Image.width
        /\ BRDFZenithImage.height = Image.height
        /\ DOMAIN BRDFZenithImage.pixels = Pixels(Image.width, Image.height)
        /\ \A p \in DOMAIN BRDFZenithImage.pixels :
              /\ BRDFZenithImage.pixels[p] >= dtype_min(Image.data_type)
              /\ BRDFZenithImage.pixels[p] <= dtype_max(Image.data_type)

\* C11's case: a U8 image of two pixels returned, one pixel predicted at 256
\* and written as 255, the other predicted at -1 and written as 0.
C11_Witness ==
    /\ ipc = "returned"
    /\ Image.data_type = "U8"
    /\ \E p, q \in DOMAIN BRDFZenithImage.pixels :
          BRDFZenithImage.pixels[p] = 255 /\ BRDFZenithImage.pixels[q] = 0

-----------------------------------------------------------------------------
(* GetSunAngle *)

\* abs(x)
abs(x) == IF x < 0 THEN -x ELSE x

\* Sun_zenith = 90 - get_altitude(...); Sun_azimuth = 180 - Sun_azimuth_South;
\* if abs(Sun_azimuth) >= 360: Sun_azimuth -= 360
GetSunAngle(altitude, Sun_azimuth_South) ==
    LET Sun_azimuth == 180 - Sun_azimuth_South
    IN [Sun_zenith  |-> 90 - altitude,
        Sun_azimuth |-> IF abs(Sun_azimuth) >= 360 THEN Sun_azimuth - 360
                        ELSE Sun_azimuth]

\* get_altitude: the sun below, at and above the horizon, and overhead
Altitudes == {-30, 0, 45, 90}

\* get_azimuth, in whole degrees: pysolar's convention has changed between its
\* releases (south-referenced and negative, later north-referenced), so any
\* azimuth less than MaxTurns turns from 180
SouthAzimuths ==
    {s \in (180 - 360 * MaxTurns)..(180 + 360 * MaxTurns) :
        abs(180 - s) < 360 * MaxTurns}

Call_GetSunAngle ==
    /\ spc = "call"
    /\ sun_angle' = GetSunAngle(pysolar.altitude, pysolar.azimuth)
    /\ spc' = "returned"
    /\ UNCHANGED pysolar
    /\ UNCHANGED <<reduceVars, mainVars, matchVars, brdfVars, imageVars>>

SunNext == Call_GetSunAngle

InitSun ==
    /\ pysolar \in [altitude : Altitudes, azimuth : SouthAzimuths]
    /\ sun_angle = <<>>
    /\ spc = "call"
    /\ ReduceIdle /\ MainIdle /\ MatchIdle /\ BRDFIdle /\ ImageIdle

SpecSun == InitSun /\ [][SunNext]_vars

\* C12: for a south-referenced azimuth s with |180 - s| < 720, GetSunAngle
\* returns 180 - s, less 360 when |180 - s| >= 360, and what it returns lies
\* strictly between -360 and 360, for negative 180 - s as for positive.
C12_SunAzimuthWithinOneTurn ==
    (spc = "returned" /\ abs(180 - pysolar.azimuth) < 720) =>
        LET a == 180 - pysolar.azimuth
        IN /\ sun_angle.Sun_azimuth = (IF abs(a) >= 360 THEN a - 360 ELSE a)
           /\ sun_angle.Sun_azimuth > -360
           /\ sun_angle.Sun_azimuth < 360

=============================================================================
